---- MODULE Spec2Model ----
(***************************************************************************)
(* Model of models.py: the NearEarthObject and CloseApproach classes, the  *)
(* construction of both from the string fields of the data files, the      *)
(* database's link step, and the read operations (fullname, time_str,      *)
(* __str__, json_serialize, csv_serialize).                                *)
(*                                                                         *)
(* Python values are represented as follows.                               *)
(*   str    a sequence of one-character strings, so that len() is Len and  *)
(*          float()/strptime() can be modelled by what they parse;         *)
(*   float  [nan |-> BOOLEAN, v |-> thousandths]; float('nan') is the      *)
(*          record NaN.  TLA+ equality on these records is object          *)
(*          identity ("the same float"); Python's == is FloatEq;           *)
(*   None   the record None; an optional string is None or Str(s);         *)
(*   a reference to a NearEarthObject is None or Ref(i), i its position in *)
(*          the list of NEOs; a reference to a CloseApproach is its        *)
(*          position in the list of approaches;                            *)
(*   dict   a TLA+ record, its keys being the record's DOMAIN.             *)
(***************************************************************************)
EXTENDS Integers, Sequences, FiniteSets, TLC

VARIABLES neos, approaches, linked, last

vars == <<neos, approaches, linked, last>>

\* ---------------------------------------------------------------- bounds
MaxNeos == 2
MaxApproaches == 2

\* ------------------------------------------------------- Python values
None == [t |-> "NoneType"]
Str(s) == [t |-> "str", v |-> s]
Ref(i) == [t |-> "NearEarthObject", id |-> i]

NaN == [nan |-> TRUE, v |-> 0]
Float(m) == [nan |-> FALSE, v |-> m]

\* Python's == on floats: a not-a-number is unequal to everything, itself included.
FloatEq(a, b) == ~a.nan /\ ~b.nan /\ a.v = b.v

Returned(x) == [ok |-> TRUE, val |-> x]
Raised(e) == [ok |-> FALSE, exc |-> e]

RECURSIVE Concat(_)
Concat(parts) ==
    IF parts = <<>> THEN <<>> ELSE Head(parts) \o Concat(Tail(parts))

\* ------------------------------------------------------------- float()
Digits == <<"0", "1", "2", "3", "4", "5", "6", "7", "8", "9">>
IsDigit(c) == \E d \in 1..10 : Digits[d] = c
DigitVal(c) == (CHOOSE d \in 1..10 : Digits[d] = c) - 1

RECURSIVE NatVal(_)
NatVal(s) ==
    IF s = <<>> THEN 0
    ELSE NatVal(SubSeq(s, 1, Len(s) - 1)) * 10 + DigitVal(s[Len(s)])

AllDigits(s) == \A k \in 1..Len(s) : IsDigit(s[k])

\* The fraction digits of a literal as thousandths: ".5" is 500, ".05" is 50.
FracVal(s) ==
    IF Len(s) = 0 THEN 0
    ELSE IF Len(s) = 1 THEN NatVal(s) * 100
    ELSE IF Len(s) = 2 THEN NatVal(s) * 10
    ELSE NatVal(SubSeq(s, 1, 3))

DotAt(s) == IF \E k \in 1..Len(s) : s[k] = "."
            THEN CHOOSE k \in 1..Len(s) : s[k] = "." /\ \A j \in 1..(k - 1) : s[j] # "."
            ELSE 0

\* float(s) for the literals of the data files: an unsigned decimal literal
\* ("0", "0.0", "1.5", ".5", "1.") or the literal "nan"; anything else
\* raises ValueError.
float(s) ==
    IF s = <<"n", "a", "n">> THEN Returned(NaN)
    ELSE IF DotAt(s) = 0
         THEN IF Len(s) > 0 /\ AllDigits(s)
              THEN Returned(Float(NatVal(s) * 1000))
              ELSE Raised("ValueError")
         ELSE LET ip == SubSeq(s, 1, DotAt(s) - 1)
                  fp == SubSeq(s, DotAt(s) + 1, Len(s))
              IN IF AllDigits(ip) /\ AllDigits(fp) /\ Len(ip) + Len(fp) > 0
                 THEN Returned(Float(NatVal(ip) * 1000 + FracVal(fp)))
                 ELSE Raised("ValueError")

RECURSIVE NatStr(_)
NatStr(n) ==
    IF n < 10 THEN <<Digits[n + 1]>>
    ELSE NatStr(n \div 10) \o <<Digits[(n % 10) + 1]>>

\* The fraction of repr(float): at least one digit, no trailing zeros.
FracStr(m) ==
    IF m % 1000 = 0 THEN <<"0">>
    ELSE IF m % 100 = 0 THEN <<Digits[(m \div 100) + 1]>>
    ELSE IF m % 10 = 0 THEN <<Digits[(m \div 100) + 1], Digits[((m \div 10) % 10) + 1]>>
    ELSE <<Digits[(m \div 100) + 1], Digits[((m \div 10) % 10) + 1], Digits[(m % 10) + 1]>>

\* str(float), as an f-string formats a float field.
FloatStr(f) ==
    IF f.nan THEN <<"n", "a", "n">>
    ELSE NatStr(f.v \div 1000) \o <<".">> \o FracStr(f.v % 1000)

\* ------------------------------------------- helpers: the date-time layout
MonthNames == << <<"J", "a", "n">>, <<"F", "e", "b">>, <<"M", "a", "r">>,
                 <<"A", "p", "r">>, <<"M", "a", "y">>, <<"J", "u", "n">>,
                 <<"J", "u", "l">>, <<"A", "u", "g">>, <<"S", "e", "p">>,
                 <<"O", "c", "t">>, <<"N", "o", "v">>, <<"D", "e", "c">> >>

IsLeap(y) == (y % 4 = 0 /\ y % 100 # 0) \/ y % 400 = 0

DaysIn(y, m) ==
    IF m = 2 THEN (IF IsLeap(y) THEN 29 ELSE 28)
    ELSE IF m \in {4, 6, 9, 11} THEN 30 ELSE 31

TimeLayoutLen == 17

\* cd_to_datetime: parses "YYYY-MMM-DD HH:MM" (no seconds) into a date-time;
\* a string outside the layout, or naming no calendar minute, raises ValueError.
cd_to_datetime(s) ==
    IF Len(s) # TimeLayoutLen THEN Raised("ValueError")
    ELSE LET y == SubSeq(s, 1, 4)
             b == SubSeq(s, 6, 8)
             d == SubSeq(s, 10, 11)
             h == SubSeq(s, 13, 14)
             mi == SubSeq(s, 16, 17)
         IN IF /\ s[5] = "-" /\ s[9] = "-" /\ s[12] = " " /\ s[15] = ":"
               /\ AllDigits(y) /\ AllDigits(d) /\ AllDigits(h) /\ AllDigits(mi)
               /\ \E m \in 1..12 : MonthNames[m] = b
            THEN LET m == CHOOSE k \in 1..12 : MonthNames[k] = b
                 IN IF /\ NatVal(y) >= 1
                       /\ NatVal(d) >= 1 /\ NatVal(d) <= DaysIn(NatVal(y), m)
                       /\ NatVal(h) <= 23 /\ NatVal(mi) <= 59
                    THEN Returned([year |-> NatVal(y), month |-> m, day |-> NatVal(d),
                                   hour |-> NatVal(h), minute |-> NatVal(mi), second |-> 0])
                    ELSE Raised("ValueError")
            ELSE Raised("ValueError")

Pad2(n) == IF n < 10 THEN <<"0">> \o NatStr(n) ELSE NatStr(n)

Pad4(n) ==
    IF n < 10 THEN <<"0", "0", "0">> \o NatStr(n)
    ELSE IF n < 100 THEN <<"0", "0">> \o NatStr(n)
    ELSE IF n < 1000 THEN <<"0">> \o NatStr(n)
    ELSE NatStr(n)

\* datetime_to_str: formats a date-time back to the layout without seconds.
datetime_to_str(dt) ==
    Concat(<< Pad4(dt.year), <<"-">>, MonthNames[dt.month], <<"-">>, Pad2(dt.day),
              <<" ">>, Pad2(dt.hour), <<":">>, Pad2(dt.minute) >>)

\* ----------------------------------------------------- NearEarthObject
\* Variants of __init__, each with one slip.
\* The hazard marker compared without regard to case.
NearEarthObject_init_anycase(designation, name, diameter, hazardous) ==
    LET d == IF Len(diameter) # 0 THEN float(diameter) ELSE Returned(NaN)
    IN IF ~d.ok THEN d
       ELSE Returned([designation |-> designation,
                      name |-> IF Len(name) # 0 THEN Str(name) ELSE None,
                      diameter |-> d.val,
                      hazardous |-> (hazardous \in {<<"Y">>, <<"y">>}),
                      approaches |-> <<>>])

\* The name stored as given, the empty string included.
NearEarthObject_init_rawname(designation, name, diameter, hazardous) ==
    LET d == IF Len(diameter) # 0 THEN float(diameter) ELSE Returned(NaN)
    IN IF ~d.ok THEN d
       ELSE Returned([designation |-> designation,
                      name |-> Str(name),
                      diameter |-> d.val,
                      hazardous |-> (hazardous = <<"Y">>),
                      approaches |-> <<>>])

\* A missing diameter stored as zero.
NearEarthObject_init_zero(designation, name, diameter, hazardous) ==
    LET d == IF Len(diameter) # 0 THEN float(diameter) ELSE Returned(Float(0))
    IN IF ~d.ok THEN d
       ELSE Returned([designation |-> designation,
                      name |-> IF Len(name) # 0 THEN Str(name) ELSE None,
                      diameter |-> d.val,
                      hazardous |-> (hazardous = <<"Y">>),
                      approaches |-> <<>>])

\* The collection of approaches created holding a first entry.
NearEarthObject_init_prefilled(designation, name, diameter, hazardous) ==
    LET d == IF Len(diameter) # 0 THEN float(diameter) ELSE Returned(NaN)
    IN IF ~d.ok THEN d
       ELSE Returned([designation |-> designation,
                      name |-> IF Len(name) # 0 THEN Str(name) ELSE None,
                      diameter |-> d.val,
                      hazardous |-> (hazardous = <<"Y">>),
                      approaches |-> <<1>>])

\* NearEarthObject.__init__: evaluated in the order of the source, so a
\* diameter that float() rejects raises after the name is assigned.
NearEarthObject_init(designation, name, diameter, hazardous) ==
    LET d == IF Len(diameter) # 0 THEN float(diameter) ELSE Returned(NaN)
    IN IF ~d.ok THEN d
       ELSE Returned([designation |-> designation,
                      name |-> IF Len(name) # 0 THEN Str(name) ELSE None,
                      diameter |-> d.val,
                      hazardous |-> (hazardous = <<"Y">>),
                      approaches |-> <<>>])

\* str() of an optional string, as an f-string formats it.
StrOfName(name) == IF name = None THEN <<"N", "o", "n", "e">> ELSE name.v

NEO_fullname(n) ==
    Concat(<< n.designation, <<" ", "(">>, StrOfName(n.name), <<")">> >>)

NEO_str(n) ==
    Concat(<< <<"N", "E", "O", " ">>, NEO_fullname(n),
              <<" ", "h", "a", "s", " ", "a", " ", "d", "i", "a", "m", "e", "t", "e", "r",
                " ", "o", "f", " ">>,
              FloatStr(n.diameter),
              <<" ", "k", "m", " ", "a", "n", "d", " ">>,
              IF n.hazardous THEN <<"i", "s">> ELSE <<"i", "s", " ", "n", "o", "t">>,
              <<" ", "p", "o", "t", "e", "n", "t", "i", "a", "l", "l", "y", " ",
                "h", "a", "z", "a", "r", "d", "o", "u", "s">> >>)

\* ------------------------------------------------------- CloseApproach
\* A variant of __init__ that keeps the designation in `neo` until the link.
CloseApproach_init_keeps(designation, time, distance, velocity) ==
    LET t == cd_to_datetime(time)
        d == float(distance)
        v == float(velocity)
    IN IF ~t.ok THEN t
       ELSE IF ~d.ok THEN d
       ELSE IF ~v.ok THEN v
       ELSE Returned([_designation |-> designation,
                      time |-> t.val,
                      distance |-> d.val,
                      velocity |-> v.val,
                      neo |-> Str(designation)])

CloseApproach_init(designation, time, distance, velocity) ==
    LET t == cd_to_datetime(time)
        d == float(distance)
        v == float(velocity)
    IN IF ~t.ok THEN t
       ELSE IF ~d.ok THEN d
       ELSE IF ~v.ok THEN v
       ELSE Returned([_designation |-> designation,
                      time |-> t.val,
                      distance |-> d.val,
                      velocity |-> v.val,
                      neo |-> None])

\* The NearEarthObject a reference designates.
Deref(r) == neos[r.id]

CA_fullname(a) ==
    Concat(<< a._designation, <<":", " ">>,
              IF a.neo = None THEN <<"N", "o", "n", "e">> ELSE NEO_str(Deref(a.neo)) >>)

\* A variant of time_str: the default representation of a date-time, which
\* has a numeric month and the seconds.
time_str_default(a) ==
    Concat(<< Pad4(a.time.year), <<"-">>, Pad2(a.time.month), <<"-">>, Pad2(a.time.day),
              <<" ">>, Pad2(a.time.hour), <<":">>, Pad2(a.time.minute), <<":">>,
              Pad2(a.time.second) >>)

time_str(a) == datetime_to_str(a.time)

\* round(x, 4) of a float held in thousandths is the float itself.
Round4(f) == f

CA_str(a) ==
    Concat(<< <<"A", "t", " ">>, time_str(a),
              <<" ", "N", "e", "a", "r", "E", "a", "r", "t", "h", "O", "b", "j", "e", "c", "t",
                " ">>,
              CA_fullname(a),
              <<" ", "a", "p", "p", "r", "o", "a", "c", "h", "e", "s", " ", "e", "a", "r", "t",
                "h", " ", "a", "t", " ", "a", " ", "d", "i", "s", "t", "a", "n", "c", "e", " ",
                "o", "f", " ">>,
              FloatStr(Round4(a.distance)),
              <<" ", "a", "u", " ", "a", "n", "d", " ", "a", " ", "v", "e", "l", "o", "c", "i",
                "t", "y", " ", "o", "f", " ">>,
              FloatStr(Round4(a.velocity)),
              <<" ", "k", "m", "/", "s", " ">> >>)

\* Variants of json_serialize, each with one slip.
\* An unlinked approach serialized with empty NEO fields instead of failing.
json_serialize_lenient(a) ==
    IF a.neo = None
    THEN Returned([datetime_utc |-> time_str(a),
                   distance_au |-> a.distance,
                   velocity_km_s |-> a.velocity,
                   neo |-> [designation |-> None, name |-> None,
                            diameter_km |-> None, potentially_hazardous |-> None]])
    ELSE Returned([datetime_utc |-> time_str(a),
                   distance_au |-> a.distance,
                   velocity_km_s |-> a.velocity,
                   neo |-> [designation |-> Deref(a.neo).designation,
                            name |-> Deref(a.neo).name,
                            diameter_km |-> Deref(a.neo).diameter,
                            potentially_hazardous |-> Deref(a.neo).hazardous]])

\* The full name written under `designation`.
json_serialize_fullname(a) ==
    IF a.neo = None THEN Raised("AttributeError")
    ELSE Returned([datetime_utc |-> time_str(a),
                   distance_au |-> a.distance,
                   velocity_km_s |-> a.velocity,
                   neo |-> [designation |-> NEO_fullname(Deref(a.neo)),
                            name |-> Deref(a.neo).name,
                            diameter_km |-> Deref(a.neo).diameter,
                            potentially_hazardous |-> Deref(a.neo).hazardous]])

\* An unknown diameter written as None.
json_serialize_null(a) ==
    IF a.neo = None THEN Raised("AttributeError")
    ELSE Returned([datetime_utc |-> time_str(a),
                   distance_au |-> a.distance,
                   velocity_km_s |-> a.velocity,
                   neo |-> [designation |-> Deref(a.neo).designation,
                            name |-> Deref(a.neo).name,
                            diameter_km |-> IF Deref(a.neo).diameter.nan THEN None
                                            ELSE Deref(a.neo).diameter,
                            potentially_hazardous |-> Deref(a.neo).hazardous]])

\* json_serialize: self.neo.designation on an unlinked approach is an
\* attribute access on None and raises AttributeError.
json_serialize(a) ==
    IF a.neo = None THEN Raised("AttributeError")
    ELSE Returned([datetime_utc |-> time_str(a),
                   distance_au |-> a.distance,
                   velocity_km_s |-> a.velocity,
                   neo |-> [designation |-> Deref(a.neo).designation,
                            name |-> Deref(a.neo).name,
                            diameter_km |-> Deref(a.neo).diameter,
                            potentially_hazardous |-> Deref(a.neo).hazardous]])

\* A variant of csv_serialize that writes a missing name as the empty string.
csv_serialize_blank(a) ==
    IF a.neo = None THEN Raised("AttributeError")
    ELSE Returned([datetime_utc |-> time_str(a),
                   distance_au |-> a.distance,
                   velocity_km_s |-> a.velocity,
                   designation |-> Deref(a.neo).designation,
                   name |-> IF Deref(a.neo).name = None THEN Str(<<>>)
                            ELSE Deref(a.neo).name,
                   diameter_km |-> Deref(a.neo).diameter,
                   potentially_hazardous |-> Deref(a.neo).hazardous])

csv_serialize(a) ==
    IF a.neo = None THEN Raised("AttributeError")
    ELSE Returned([datetime_utc |-> time_str(a),
                   distance_au |-> a.distance,
                   velocity_km_s |-> a.velocity,
                   designation |-> Deref(a.neo).designation,
                   name |-> Deref(a.neo).name,
                   diameter_km |-> Deref(a.neo).diameter,
                   potentially_hazardous |-> Deref(a.neo).hazardous])

\* ------------------------------------------------- the records loaded
\* The string fields the loaders pass to the two constructors.  NEO "433"
\* is loaded with every combination of name, diameter and hazard marker,
\* NEO "1" with the record of a nameless object of unknown size; approaches
\* of "433" with every combination of time, distance and velocity, those of
\* "1" and of "99" (a designation no NEO has) with one record each.
Designation433 == <<"4", "3", "3">>
Names == { <<>>, <<"E", "r", "o", "s">> }
Diameters == { <<>>, <<"0">>, <<"0", ".", "0">>, <<"1", ".", "5">>,
               <<"n", "a", "n">>, <<"x">> }
Hazardous == { <<>>, <<"Y">>, <<"y">>, <<"N">>, <<"Y", "e", "s">> }
Times == { <<"2", "0", "2", "0", "-", "J", "a", "n", "-", "0", "1", " ",
             "1", "2", ":", "3", "0">>,
           <<"2", "0", "2", "1", "-", "D", "e", "c", "-", "3", "1", " ",
             "2", "3", ":", "5", "9">>,
           <<"2", "0", "2", "1", "-", "F", "e", "b", "-", "3", "0", " ",
             "1", "0", ":", "0", "0">> }
Distances == { <<"0", ".", "5">>, <<"x">> }
Velocities == { <<"1", "2", ".", "3">>, <<>> }

NeoRecords ==
    ({Designation433} \X Names \X Diameters \X Hazardous)
        \cup { << <<"1">>, <<>>, <<>>, <<"Y">> >> }

ApproachRecords ==
    ({Designation433} \X Times \X Distances \X Velocities)
        \cup { << <<"1">>, <<"2", "0", "2", "0", "-", "J", "a", "n", "-", "0", "1", " ",
                             "1", "2", ":", "3", "0">>,
                  <<"0", ".", "5">>, <<"1", "2", ".", "3">> >>,
               << <<"9", "9">>, <<"1", "9", "9", "9", "-", "F", "e", "b", "-", "0", "9", " ",
                                  "0", "0", ":", "0", "5">>,
                  <<"0", ".", "0", "2", "5">>, <<"7">> >> }

NoCall == [op |-> "none", self |-> 0, args |-> <<>>, ret |-> Returned(None)]
Call(op, self, args, ret) == [op |-> op, self |-> self, args |-> args, ret |-> ret]

Init ==
    /\ neos = <<>>
    /\ approaches = <<>>
    /\ linked = FALSE
    /\ last = NoCall

\* ------------------------------------------------------------ loading
\* A loader constructs one NearEarthObject from a record of the NEO file.
\* Primary designations are unique in the data ("required, unique").
NewNearEarthObject ==
    /\ ~linked
    /\ Len(neos) < MaxNeos
    /\ \E rec \in NeoRecords :
          LET r == NearEarthObject_init(rec[1], rec[2], rec[3], rec[4])
          IN /\ \A i \in 1..Len(neos) : neos[i].designation # rec[1]
             /\ neos' = IF r.ok THEN Append(neos, r.val) ELSE neos
             /\ last' = Call("NearEarthObject", IF r.ok THEN Len(neos) + 1 ELSE 0, rec,
                             IF r.ok THEN Returned(None) ELSE r)
    /\ UNCHANGED <<approaches, linked>>

\* A loader constructs one CloseApproach from a record of the approach file.
NewCloseApproach ==
    /\ ~linked
    /\ Len(approaches) < MaxApproaches
    /\ \E rec \in ApproachRecords :
          LET r == CloseApproach_init(rec[1], rec[2], rec[3], rec[4])
          IN /\ approaches' = IF r.ok THEN Append(approaches, r.val) ELSE approaches
             /\ last' = Call("CloseApproach", IF r.ok THEN Len(approaches) + 1 ELSE 0, rec,
                             IF r.ok THEN Returned(None) ELSE r)
    /\ UNCHANGED <<neos, linked>>

\* ------------------------------------------------- the database's link
\* The NEO an approach's designation resolves to, 0 when there is none.
NeoByDesignation(designation) ==
    IF \E i \in 1..Len(neos) : neos[i].designation = designation
    THEN CHOOSE i \in 1..Len(neos) : neos[i].designation = designation
    ELSE 0

RECURSIVE ApproachesOf(_, _)
\* The approaches 1..k that resolve to NEO i, in load order.
ApproachesOf(i, k) ==
    IF k = 0 THEN <<>>
    ELSE IF NeoByDesignation(approaches[k]._designation) = i
         THEN Append(ApproachesOf(i, k - 1), k)
         ELSE ApproachesOf(i, k - 1)

\* NEODatabase.__init__: every approach whose designation names a NEO gets
\* that NEO as its `neo` and is appended to the NEO's `approaches`; an
\* approach that names no NEO is left unlinked.
Link ==
    /\ ~linked
    /\ linked' = TRUE
    /\ approaches' = [k \in 1..Len(approaches) |->
                        IF NeoByDesignation(approaches[k]._designation) # 0
                        THEN [approaches[k] EXCEPT
                                 !.neo = Ref(NeoByDesignation(approaches[k]._designation))]
                        ELSE approaches[k]]
    /\ neos' = [i \in 1..Len(neos) |->
                  [neos[i] EXCEPT
                      !.approaches = neos[i].approaches \o ApproachesOf(i, Len(approaches))]]
    /\ last' = Call("NEODatabase", 0, <<>>, Returned(None))

\* ----------------------------------------------------- read operations
NeoFullname ==
    /\ \E i \in 1..Len(neos) :
          last' = Call("NearEarthObject.fullname", i, <<>>, Returned(NEO_fullname(neos[i])))
    /\ UNCHANGED <<neos, approaches, linked>>

NeoStr ==
    /\ \E i \in 1..Len(neos) :
          last' = Call("NearEarthObject.__str__", i, <<>>, Returned(NEO_str(neos[i])))
    /\ UNCHANGED <<neos, approaches, linked>>

ApproachFullname ==
    /\ \E k \in 1..Len(approaches) :
          last' = Call("CloseApproach.fullname", k, <<>>,
                       Returned(CA_fullname(approaches[k])))
    /\ UNCHANGED <<neos, approaches, linked>>

ApproachTimeStr ==
    /\ \E k \in 1..Len(approaches) :
          last' = Call("CloseApproach.time_str", k, <<>>, Returned(time_str(approaches[k])))
    /\ UNCHANGED <<neos, approaches, linked>>

ApproachStr ==
    /\ \E k \in 1..Len(approaches) :
          last' = Call("CloseApproach.__str__", k, <<>>, Returned(CA_str(approaches[k])))
    /\ UNCHANGED <<neos, approaches, linked>>

JsonSerialize ==
    /\ \E k \in 1..Len(approaches) :
          last' = Call("json_serialize", k, <<>>, json_serialize(approaches[k]))
    /\ UNCHANGED <<neos, approaches, linked>>

CsvSerialize ==
    /\ \E k \in 1..Len(approaches) :
          last' = Call("csv_serialize", k, <<>>, csv_serialize(approaches[k]))
    /\ UNCHANGED <<neos, approaches, linked>>

Next ==
    \/ NewNearEarthObject
    \/ NewCloseApproach
    \/ Link
    \/ NeoFullname
    \/ NeoStr
    \/ ApproachFullname
    \/ ApproachTimeStr
    \/ ApproachStr
    \/ JsonSerialize
    \/ CsvSerialize

Spec == Init /\ [][Next]_vars

\* ---------------------------------------------------------- properties
Unlinked(k) == approaches[k].neo = None
IsLinked(k) == approaches[k].neo # None

Constructed(op) == last.op = op /\ last.ret.ok
Serialized == last.op \in {"json_serialize", "csv_serialize"}

JsonKeys == {"datetime_utc", "distance_au", "velocity_km_s", "neo"}
NeoKeys == {"designation", "name", "diameter_km", "potentially_hazardous"}
CsvKeys == {"datetime_utc", "distance_au", "velocity_km_s",
            "designation", "name", "diameter_km", "potentially_hazardous"}

\* C1: on an approach whose `neo` is still None, json_serialize() and
\* csv_serialize() both fail with the null-reference error (AttributeError)
\* and return no mapping, whether the call is made before the link step or
\* on an approach the link step left unlinked.
C1_SerializeUnlinkedFails ==
    /\ \A k \in 1..Len(approaches) :
          Unlinked(k) =>
             /\ json_serialize(approaches[k]) = Raised("AttributeError")
             /\ csv_serialize(approaches[k]) = Raised("AttributeError")
    /\ (Serialized /\ Unlinked(last.self)) =>
          (~last.ret.ok /\ last.ret.exc = "AttributeError")

C1_Witness ==
    /\ ~linked
    /\ last.op = "json_serialize"
    /\ Unlinked(last.self)
    /\ ~last.ret.ok

\* C2: the stored `hazardous` of a constructed NEO is TRUE exactly when the
\* hazard string given was "Y"; "", "y", "N" and "Yes" all store FALSE.
C2_HazardousIffY ==
    Constructed("NearEarthObject") =>
       /\ neos[last.self].hazardous \in BOOLEAN
       /\ neos[last.self].hazardous = TRUE <=> last.args[4] = <<"Y">>
       /\ last.args[4] \in { <<>>, <<"y">>, <<"N">>, <<"Y", "e", "s">> }
             => neos[last.self].hazardous = FALSE

C2_Witness ==
    /\ Constructed("NearEarthObject")
    /\ last.args[4] = <<"y">>
    /\ neos[last.self].hazardous = FALSE

\* C3: the stored `name` of a constructed NEO is None when the name given
\* was the empty string and the given string otherwise; no NEO ever has the
\* empty string as its name.
C3_EmptyNameIsNone ==
    /\ Constructed("NearEarthObject") =>
          neos[last.self].name =
             (IF last.args[2] = <<>> THEN None ELSE Str(last.args[2]))
    /\ \A i \in 1..Len(neos) : neos[i].name # Str(<<>>)

C3_Witness ==
    /\ Constructed("NearEarthObject")
    /\ last.args[2] = <<>>
    /\ neos[last.self].name = None

\* C4: the stored `diameter` of a constructed NEO is the not-a-number float
\* when the diameter given was the empty string, and the number the string
\* denotes otherwise ("0" and "0.0" are 0.0, "1.5" is 1.5); the not-a-number
\* float is neither None nor equal to 0.0 (nor to itself).
C4_EmptyDiameterIsNaN ==
    Constructed("NearEarthObject") =>
       LET given == last.args[3]
           d == neos[last.self].diameter
       IN /\ given = <<>> =>
                /\ d.nan
                /\ d # None
                /\ d # Float(0)
                /\ ~FloatEq(d, Float(0))
                /\ ~FloatEq(d, d)
          /\ given \in { <<"0">>, <<"0", ".", "0">> } =>
                /\ ~d.nan
                /\ FloatEq(d, Float(0))
          /\ given = <<"1", ".", "5">> => FloatEq(d, Float(1500))

C4_Witness ==
    /\ Constructed("NearEarthObject")
    /\ last.args[3] = <<>>
    /\ neos[last.self].diameter.nan

\* C5: on a linked approach json_serialize() returns a mapping with exactly
\* the keys datetime_utc, distance_au, velocity_km_s and neo; the value under
\* neo has exactly the keys designation, name, diameter_km and
\* potentially_hazardous, and its designation is the linked NEO's.
C5_JsonShape ==
    /\ \A k \in 1..Len(approaches) :
          IsLinked(k) =>
             LET r == json_serialize(approaches[k])
             IN /\ r.ok
                /\ DOMAIN r.val = JsonKeys
                /\ DOMAIN r.val.neo = NeoKeys
                /\ r.val.neo.designation = neos[approaches[k].neo.id].designation
    /\ (last.op = "json_serialize" /\ IsLinked(last.self)) =>
          /\ last.ret.ok
          /\ DOMAIN last.ret.val = JsonKeys
          /\ DOMAIN last.ret.val.neo = NeoKeys
          /\ last.ret.val.neo.designation = neos[approaches[last.self].neo.id].designation

C5_Witness ==
    /\ last.op = "json_serialize"
    /\ IsLinked(last.self)
    /\ last.ret.ok
    /\ last.ret.val.neo.designation = Designation433

\* C6: on a linked approach csv_serialize() is json_serialize() flattened:
\* seven sibling keys and no neo key, the three approach values those of the
\* JSON mapping, and each NEO value the one nested under neo in the JSON
\* mapping (the same object: for a not-a-number diameter both mappings hold
\* the one float of the NEO).
C6_CsvFlattensJson ==
    \A k \in 1..Len(approaches) :
       IsLinked(k) =>
          LET c == csv_serialize(approaches[k])
              j == json_serialize(approaches[k])
          IN /\ c.ok /\ j.ok
             /\ DOMAIN c.val = CsvKeys
             /\ "neo" \notin DOMAIN c.val
             /\ c.val.datetime_utc = j.val.datetime_utc
             /\ c.val.distance_au = j.val.distance_au
             /\ c.val.velocity_km_s = j.val.velocity_km_s
             /\ c.val.designation = j.val.neo.designation
             /\ c.val.name = j.val.neo.name
             /\ c.val.diameter_km = j.val.neo.diameter_km
             /\ c.val.potentially_hazardous = j.val.neo.potentially_hazardous

C6_Witness ==
    /\ last.op = "csv_serialize"
    /\ IsLinked(last.self)
    /\ last.ret.ok
    /\ last.ret.val.name = None

UnknownDiameter(k) == IsLinked(k) /\ neos[approaches[k].neo.id].diameter.nan

\* C7 as stated: for a linked approach whose NEO has an unknown diameter,
\* the diameter_km of json_serialize() and of csv_serialize() is a literal
\* chosen for "unknown", not the NEO's not-a-number float passed through.
C7_Original ==
    \A k \in 1..Len(approaches) :
       UnknownDiameter(k) =>
          /\ json_serialize(approaches[k]).val.neo.diameter_km
                # neos[approaches[k].neo.id].diameter
          /\ csv_serialize(approaches[k]).val.diameter_km
                # neos[approaches[k].neo.id].diameter

\* C7 amended: both serializers pass the NEO's `diameter` through unchanged,
\* so for an unknown diameter both give the not-a-number float itself.
C7_DiameterPassedThrough ==
    /\ \A k \in 1..Len(approaches) :
          IsLinked(k) =>
             /\ json_serialize(approaches[k]).val.neo.diameter_km
                   = neos[approaches[k].neo.id].diameter
             /\ csv_serialize(approaches[k]).val.diameter_km
                   = neos[approaches[k].neo.id].diameter
    /\ \A k \in 1..Len(approaches) :
          UnknownDiameter(k) =>
             /\ json_serialize(approaches[k]).val.neo.diameter_km = NaN
             /\ csv_serialize(approaches[k]).val.diameter_km = NaN

C7_Witness ==
    /\ Serialized
    /\ UnknownDiameter(last.self)
    /\ last.ret.ok

\* C8: an approach is constructed with `neo` None; `neo` changes only in the
\* link step; once it is set it designates one existing NEO, and no later
\* step (json_serialize, csv_serialize, fullname, time_str, __str__
\* included) changes it or resets it to None.
C8_NeoSetOnceByLink ==
    [][ /\ Len(approaches') >= Len(approaches)
        /\ \A k \in 1..Len(approaches') :
              IF k > Len(approaches)
              THEN approaches'[k].neo = None
              ELSE /\ approaches[k].neo # None => approaches'[k].neo = approaches[k].neo
                   /\ approaches'[k].neo # approaches[k].neo => (~linked /\ linked')
                   /\ approaches'[k].neo # None =>
                         \E i \in 1..Len(neos') : approaches'[k].neo = Ref(i)
      ]_vars

C8_Witness ==
    /\ linked
    /\ last.op \in {"json_serialize", "csv_serialize", "CloseApproach.fullname",
                    "CloseApproach.time_str", "CloseApproach.__str__"}
    /\ IsLinked(last.self)
    /\ \E k \in 1..Len(approaches) : Unlinked(k)

\* How many times approach k occurs in a NEO's collection.
Occurrences(seq, k) == Cardinality({p \in 1..Len(seq) : seq[p] = k})

\* C9: a NEO's `approaches` is empty when it is constructed (and until the
\* link step); after the link step the collection of every NEO n holds each
\* approach whose designation is n's exactly once and no other approach, and
\* each of those approaches has n as its `neo`.
C9_LinkAgrees ==
    /\ Constructed("NearEarthObject") => neos[last.self].approaches = <<>>
    /\ ~linked => \A i \in 1..Len(neos) : neos[i].approaches = <<>>
    /\ linked =>
          \A i \in 1..Len(neos) : \A k \in 1..Len(approaches) :
             /\ Occurrences(neos[i].approaches, k) =
                   (IF approaches[k]._designation = neos[i].designation THEN 1 ELSE 0)
             /\ approaches[k]._designation = neos[i].designation =>
                   approaches[k].neo = Ref(i)
             /\ \A p \in 1..Len(neos[i].approaches) :
                   neos[i].approaches[p] \in 1..Len(approaches)

C9_Witness ==
    /\ linked
    /\ Len(neos) = 2
    /\ Len(approaches) = 2
    /\ \E i \in 1..Len(neos) : neos[i].approaches = <<2>>
    /\ \E i \in 1..Len(neos) : neos[i].approaches = <<1>>

\* C10: the time_str of an approach constructed from a time string in the
\* layout is that string, and parsing time_str again gives the stored
\* date-time.
C10_TimeRoundTrip ==
    /\ Constructed("CloseApproach") =>
          time_str(approaches[last.self]) = last.args[2]
    /\ \A k \in 1..Len(approaches) :
          cd_to_datetime(time_str(approaches[k])) = Returned(approaches[k].time)
    /\ last.op = "CloseApproach.time_str" =>
          cd_to_datetime(last.ret.val) = Returned(approaches[last.self].time)

C10_Witness ==
    /\ Constructed("CloseApproach")
    /\ last.args[2] = <<"2", "0", "2", "0", "-", "J", "a", "n", "-", "0", "1", " ",
                        "1", "2", ":", "3", "0">>
    /\ time_str(approaches[last.self]) = last.args[2]
    /\ approaches[last.self].time.minute = 30

====
